---- MODULE Spec2Model ----
(***************************************************************************)
(* Model of `devkit file dedupe` (runDedupe and calculateFileHash).        *)
(*                                                                         *)
(* A path is a sequence of name components below the search path; the      *)
(* search path itself is the empty sequence.  Names are naturals, ordered  *)
(* as filepath.Walk orders the names of a directory listing.               *)
(***************************************************************************)
EXTENDS Naturals, Sequences, FiniteSets

\* ------------------------------------------------------------------ bounds
NumContents == 2     \* distinct file contents: 1..NumContents
MaxFaults == 1       \* unreadable entries, deletions and writes by another
                     \* process and failing removals of existing files, in
                     \* one history
MaxRuns == 2         \* invocations of the command over the same tree

Contents == 1..NumContents

\* ------------------------------------------------------------- file system
\* The names of one directory listing, in the order of filepath.Walk
\* (1 = a.txt, 2 = b, 3 = c.txt); only DirNames may name a directory and
\* only LinkNames a symbolic link or a named pipe of the search path's own
\* listing.
Names == {1, 2, 3}
DirNames == {2}
LinkNames == {3}

searchPath == << >>

TopPaths == {<<n>> : n \in Names}
SubPaths == {<<d, n>> : d \in DirNames, n \in Names}
Paths == {searchPath} \cup TopPaths \cup SubPaths

NoEntry == [kind |-> "none", content |-> 0, readable |-> FALSE]
DirEntries == {[kind |-> "dir", content |-> 0, readable |-> r] : r \in BOOLEAN}
FileEntries == {[kind |-> "file", content |-> c, readable |-> r] :
                   c \in Contents, r \in BOOLEAN}

\* A symbolic link: Lstat reports it as a non-directory; os.Open follows it,
\* so `content` is what its target holds and `readable` whether the target
\* can be opened and read as a file (not when it dangles or is a directory).
LinkEntries == {[kind |-> "symlink", content |-> c, readable |-> r] :
                   c \in Contents, r \in BOOLEAN}

\* A named pipe: Lstat reports it as a non-directory; os.Open of a pipe
\* waits until another process opens it for writing.
PipeEntries == {[kind |-> "pipe", content |-> 0, readable |-> TRUE]}

\* what Lstat does not report as a directory
NonDir == {"file", "symlink", "pipe"}

Parent(p) == SubSeq(p, 1, Len(p) - 1)

\* filepath.Base of a walked path: info.Name()
BaseName(p) == p[Len(p)]

Unreadable(t) == {p \in Paths : t[p].kind # "none" /\ ~t[p].readable}

\* p comes before q in the order of the walk (depth first, names ascending)
Before(p, q) ==
    \/ Len(p) < Len(q) /\ p = SubSeq(q, 1, Len(p))
    \/ \E i \in 1..Len(p) :
         /\ i <= Len(q)
         /\ SubSeq(p, 1, i - 1) = SubSeq(q, 1, i - 1)
         /\ p[i] < q[i]

\* the entries whose content can be read
Legible(t) == {p \in Paths : t[p].kind \in NonDir /\ t[p].readable}

\* Contents are compared for equality only, so a tree stands for every tree
\* that renames the contents: the contents are numbered by first appearance.
\* What cannot be read has the first content, which nothing observes.
Numbered(t) ==
    /\ \A p \in Legible(t) :
          \A c \in 1..(t[p].content - 1) :
              \E q \in Legible(t) : Before(q, p) /\ t[q].content = c
    /\ \A p \in Paths :
          (t[p].kind \in NonDir /\ ~t[p].readable) => t[p].content = 1

\* what may be found under a name of the search path's listing
TopEntries(n) ==
    {NoEntry} \cup FileEntries
        \cup (IF n \in DirNames THEN DirEntries ELSE {})
        \cup (IF n \in LinkNames THEN LinkEntries \cup PipeEntries ELSE {})

\* what may be found at a path
Allowed(p) ==
    IF p = searchPath THEN {NoEntry} \cup DirEntries
    ELSE IF Len(p) = 1 THEN TopEntries(p[1])
    ELSE {NoEntry} \cup FileEntries

\* The search path is missing or a directory, every entry lives in a
\* directory, at most MaxFaults entries cannot be read.
WellFormed(t) ==
    /\ \A p \in Paths : t[p] \in Allowed(p)
    /\ \A p \in Paths \ {searchPath} :
          t[p].kind # "none" => t[Parent(p)].kind = "dir"
    /\ Cardinality(Unreadable(t)) <= MaxFaults
    /\ Numbered(t)

\* the paths in the order of the walk
RECURSIVE InOrder(_)
InOrder(S) ==
    IF S = {} THEN << >>
    ELSE LET first == CHOOSE p \in S : \A q \in S \ {p} : Before(p, q)
         IN  <<first>> \o InOrder(S \ {first})

WalkOrder == InOrder(Paths)

\* the tree that has es[i] at the i-th path of the walk order, nothing after
Pad(es) ==
    [p \in Paths |->
        LET i == CHOOSE j \in 1..Len(WalkOrder) : WalkOrder[j] = p
        IN  IF i <= Len(es) THEN es[i] ELSE NoEntry]

\* the well-formed trees that are empty after the k-th path
RECURSIVE Partials(_)
Partials(k) ==
    IF k = 0 THEN {<< >>}
    ELSE {es \in {Append(fewer, e) : fewer \in Partials(k - 1),
                                      e \in Allowed(WalkOrder[k])} :
             WellFormed(Pad(es))}

\* the trees the command can be started on
Trees == {Pad(es) : es \in Partials(Len(WalkOrder))}

VARIABLES
    fs,          \* the directory tree: path -> entry
    fs0,         \* the tree as it was when the run started
    by,          \* --by
    action,      \* --action
    dryRun,      \* --dry-run
    recursive,   \* --recursive
    format,      \* --output
    pc,          \* position of runDedupe
    todo,        \* filepath.Walk: paths still to visit, next one first
    visits,      \* the calls of the walk function, in order
    walked,      \* the (path, key) pairs appended to fileMap, in walk order
    fileMap,     \* key -> paths
    rangeLeft,   \* keys the range over fileMap has not produced yet
    duplicates,  \* the groups
    toDelete,    \* the deletion list
    di,          \* index of the next element of toDelete
    outcomes,    \* one entry per os.Remove call, with the line printed for it
    report,      \* the value handed to output.PrintSuccess
    walkErr,     \* what filepath.Walk returns
    err,         \* what runDedupe returns
    external,    \* what another process did to the tree, in order
    removeFails, \* os.Remove failures on files that exist
    run,         \* number of the current invocation
    history      \* summary of the finished invocations

\* --by is a free string: the two documented values and a misspelled one
ByValues == {"hash", "name", "Hash"}

\* --action is a free string as well
ActionValues == {"list", "delete", "remove"}

flags == <<by, action, dryRun, recursive, format>>
local == <<pc, todo, visits, walked, fileMap, rangeLeft, duplicates, toDelete, di,
           outcomes, report, walkErr, err>>
env == <<external, removeFails, run, history>>
vars == <<fs, fs0, flags, local, env>>

\* ------------------------------------------------------------------- keys
\* hex of the SHA-256 digest of a content: distinct contents, distinct keys
Sha256Hex(c) == <<"sha256", c>>
NameKey(n) == <<"name", n>>
\* the empty string calculateFileHash returns with an error
EmptyKey == <<"", 0>>
AllKeys ==
    {Sha256Hex(c) : c \in Contents} \cup {NameKey(n) : n \in Names} \cup {EmptyKey}

calculateFileHash(filename) ==
    IF fs[filename].kind \in NonDir /\ fs[filename].readable
    THEN [err |-> FALSE, hash |-> Sha256Hex(fs[filename].content)]
    ELSE [err |-> TRUE, hash |-> EmptyKey]

\* ------------------------------------------------------------ filepath.Walk
RECURSIVE NamesFrom(_, _)
NamesFrom(p, n) ==
    IF n \notin Names THEN << >>
    ELSE (IF Append(p, n) \in Paths /\ fs[Append(p, n)].kind # "none"
          THEN <<n>> ELSE << >>) \o NamesFrom(p, n + 1)

\* the names of a directory, sorted
readDirNames(p) == NamesFrom(p, 1)

\* The function literal passed to filepath.Walk: what it returns and the key
\* (if any) under which it appends the path to fileMap.
\* a slip: the error of an entry is handed back to filepath.Walk
OnWalkErrReturn == "walk error"
\* a slip: no subdirectory is skipped
SkipsDirNever(path) == FALSE
\* a slip: every subdirectory is skipped
SkipsDirAlways(path) == path # searchPath
\* a slip: the key is always the base name
UsesHashNever == FALSE
\* a slip: the key is always the digest
UsesHashAlways == TRUE
\* a slip: every value but "name" selects the digest
UsesHashUnlessName == by # "name"
\* a slip: the error of calculateFileHash is not looked at
HashKeysAnyway(h) == <<h.hash>>

\* if err != nil { return nil }
OnWalkErr == "nil"
\* if !recursive && path != searchPath { return filepath.SkipDir }
SkipsDir(path) == ~recursive /\ path # searchPath
\* if by == "hash"
UsesHash == by = "hash"
\* hash, err := calculateFileHash(path); if err != nil { return nil }
HashKeys(h) == IF h.err THEN << >> ELSE <<h.hash>>

WalkFn(path, info, werr) ==
    IF werr THEN [ret |-> OnWalkErr, keys |-> << >>]
    ELSE IF info.kind = "dir"
    THEN IF SkipsDir(path)
         THEN [ret |-> "SkipDir", keys |-> << >>]
         ELSE [ret |-> "nil", keys |-> << >>]
    ELSE IF UsesHash
    THEN [ret |-> "nil", keys |-> HashKeys(calculateFileHash(path))]
    ELSE [ret |-> "nil", keys |-> <<NameKey(BaseName(path))>>]

\* a slip: the path is put in front of the paths of its key
PrependPath(files, path) == <<path>> \o files

\* a slip: the path is appended twice
AppendTwice(files, path) == files \o <<path, path>>

\* fileMap[key] = append(fileMap[key], path)
AppendPath(files, path) == Append(files, path)

\* the function does not return: calculateFileHash waits in os.Open
Blocks(path) == UsesHash /\ fs[path].kind = "pipe"

\* One visit of filepath.Walk: Lstat the next path, list it when it is a
\* directory, call the function, descend unless told otherwise.
WalkStep ==
    /\ pc = "walk"
    /\ todo # << >>
    /\ ~Blocks(Head(todo))
    /\ LET path == Head(todo)
           info == fs[path]
           lstatErr == info.kind = "none"
           readErr == info.kind = "dir" /\ ~info.readable
           r == WalkFn(path, info, lstatErr \/ readErr)
           names == readDirNames(path)
           descend == info.kind = "dir" /\ ~readErr /\ r.ret = "nil"
           children == IF descend
                       THEN [i \in 1..Len(names) |-> Append(path, names[i])]
                       ELSE << >>
       IN  /\ fileMap' = IF r.keys = << >> THEN fileMap
                         ELSE [fileMap EXCEPT ![r.keys[1]] = AppendPath(@, path)]
           /\ walked' = IF r.keys = << >> THEN walked
                        ELSE Append(walked, [path |-> path, key |-> r.keys[1],
                                             kind |-> info.kind,
                                             content |-> info.content])
           /\ visits' = Append(visits, [path |-> path, info |-> info,
                                        err |-> lstatErr \/ readErr,
                                        ret |-> r.ret])
           /\ IF r.ret \in {"nil", "SkipDir"}
              THEN todo' = children \o Tail(todo) /\ walkErr' = walkErr
              ELSE todo' = << >> /\ walkErr' = r.ret
    /\ UNCHANGED <<fs, fs0, flags, env, pc, rangeLeft, duplicates, toDelete,
                   di, outcomes, report, err>>

\* filepath.Walk has returned: fail on its error, else range over fileMap.
WalkReturn ==
    /\ pc = "walk"
    /\ todo = << >>
    /\ IF walkErr # "nil"
       THEN /\ pc' = "done"
            /\ err' = "dedupe error"
            /\ rangeLeft' = rangeLeft
       ELSE /\ pc' = "range"
            /\ err' = err
            /\ rangeLeft' = {k \in AllKeys : fileMap[k] # << >>}
    /\ UNCHANGED <<fs, fs0, flags, env, todo, visits, walked, fileMap, duplicates,
                   toDelete, di, outcomes, report, walkErr>>

\* ---------------------------------------------------------------- grouping
\* a slip: every key of the map is reported
IsGroupAny(files) == Len(files) > 0
\* a slip: every path of the key is marked
DupsAll(files) == files
\* a slip: the last path is spared instead of the first
DupsButLast(files) == SubSeq(files, 1, Len(files) - 1)

IsGroup(files) == Len(files) > 1
Keep(files) == files[1]
Dups(files) == Tail(files)
\* a slip: the members are counted, the file kept included
GroupCountMembers(dups) == Len(dups) + 1

\* "count": len(dups)
GroupCount(dups) == Len(dups)

\* a slip: the duplicates are marked whatever the action
MarkedAlways(dups) == dups

\* if action == "delete" { toDelete = append(toDelete, dups...) }
Marked(dups) == IF action = "delete" THEN dups ELSE << >>

\* a slip: the paths of a group are put in front of the deletion list
PlanInFront(list, dups) == dups \o list

\* toDelete = append(toDelete, dups...)
Plan(list, dups) == list \o dups

\* One iteration of `for key, files := range fileMap`; Go fixes no order.
RangeStep ==
    /\ pc = "range"
    /\ \E key \in rangeLeft :
         LET files == fileMap[key]
         IN  /\ rangeLeft' = rangeLeft \ {key}
             /\ IF IsGroup(files)
                THEN /\ duplicates' =
                          Append(duplicates,
                                 [key |-> key, keep |-> Keep(files),
                                  duplicates |-> Dups(files),
                                  count |-> GroupCount(Dups(files))])
                     /\ toDelete' = Plan(toDelete, Marked(Dups(files)))
                ELSE UNCHANGED <<duplicates, toDelete>>
    /\ UNCHANGED <<fs, fs0, flags, env, pc, todo, visits, walked, fileMap, di, outcomes,
                   report, walkErr, err>>

\* ------------------------------------------------------------------ output
Apply == action = "delete" /\ ~dryRun

\* the os.Remove calls made so far, and those that returned an error
Attempts == {i \in 1..Len(outcomes) : outcomes[i].line # "Would delete"}
Failed == {i \in Attempts : outcomes[i].removeErr}

\* a slip: the files to delete are counted instead of the groups
CountOfFiles(groups) == Len(toDelete)
\* a slip: a failed removal makes the command fail
ReturnsErrorOnFailure == IF Failed = {} THEN "nil" ELSE "dedupe error"

\* len(duplicates)
CountOf(groups) == Len(groups)
\* return nil
Returns == "nil"

NoReport == [format |-> "none"]

\* a slip: the search path is reported under the key root_path
JSONReportRootPath ==
    [format |-> "json", root_path |-> searchPath, method |-> by,
     duplicates |-> duplicates, count |-> Len(duplicates),
     to_delete |-> Len(toDelete), dry_run |-> dryRun]

\* the map handed to output.PrintSuccess; `format` is its first argument
JSONReport ==
    [format |-> "json", path |-> searchPath, method |-> by,
     duplicates |-> duplicates, count |-> CountOf(duplicates),
     to_delete |-> Len(toDelete), dry_run |-> dryRun]

\* the plain output: the groups first, "Found %d duplicate groups" last
PlainGroups == [format |-> "plain", groups |-> duplicates]
PlainFound(printed) ==
    [format |-> "plain", groups |-> printed.groups,
     found |-> CountOf(duplicates)]

\* a slip: the output and the deletions do not wait for the end of the range
RangeOverAnytime == TRUE

\* `for key, files := range fileMap` has produced every key
RangeOver == rangeLeft = {}

\* the branch that deletes is entered
EntersDelete == format # "json" /\ action = "delete" /\ Len(toDelete) > 0

\* The range is over: print the report; the plain branch goes on to the
\* deletion loop, every other path returns nil.
OutputStep ==
    /\ pc = "range"
    /\ RangeOver
    /\ report' = IF format = "json" THEN JSONReport
                 ELSE IF EntersDelete THEN PlainGroups
                 ELSE PlainFound(PlainGroups)
    /\ IF EntersDelete
       THEN pc' = "delete" /\ di' = 1 /\ err' = err
       ELSE pc' = "done" /\ di' = di /\ err' = Returns
    /\ UNCHANGED <<fs, fs0, flags, env, todo, visits, walked, fileMap, rangeLeft,
                   duplicates, toDelete, outcomes, walkErr>>

\* ---------------------------------------------------------------- deletion
\* what has gone wrong so far in this history
Faults == Cardinality(Unreadable(fs)) + Len(external) + removeFails

\* a slip: the loop is left at the first failure
NextIndexAbort(i, removeErr) == IF removeErr THEN Len(toDelete) + 1 ELSE i + 1
\* a slip: the dry-run flag is not consulted
RemovesAlways == TRUE

Line(removeErr) == IF removeErr THEN "Failed to delete" ELSE "Deleted"
NextIndex(i, removeErr) == i + 1
Removes == ~dryRun

\* One iteration of `for _, file := range toDelete`.
DeleteStep ==
    /\ pc = "delete"
    /\ di <= Len(toDelete)
    /\ LET file == toDelete[di]
       IN  IF Removes
           THEN \E removeErr \in BOOLEAN :
                  /\ fs[file].kind = "none" => removeErr
                  /\ (fs[file].kind # "none" /\ removeErr) => Faults < MaxFaults
                  /\ removeFails' = IF fs[file].kind # "none" /\ removeErr
                                    THEN removeFails + 1 ELSE removeFails
                  /\ fs' = IF removeErr THEN fs
                           ELSE [fs EXCEPT ![file] = NoEntry]
                  /\ outcomes' = Append(outcomes,
                                        [path |-> file, removeErr |-> removeErr,
                                         line |-> Line(removeErr)])
                  /\ di' = NextIndex(di, removeErr)
           ELSE /\ outcomes' = Append(outcomes,
                                      [path |-> file, removeErr |-> FALSE,
                                       line |-> "Would delete"])
                /\ di' = di + 1
                /\ UNCHANGED <<fs, removeFails>>
    /\ UNCHANGED <<fs0, flags, pc, todo, visits, walked, fileMap, rangeLeft, duplicates,
                   toDelete, report, walkErr, err, external, run, history>>

\* the deletion loop is over: print the number of groups, return nil
DeleteReturn ==
    /\ pc = "delete"
    /\ di > Len(toDelete)
    /\ pc' = "done"
    /\ report' = PlainFound(report)
    /\ err' = Returns
    /\ UNCHANGED <<fs, fs0, flags, env, todo, visits, walked, fileMap,
                   rangeLeft, duplicates, toDelete, di, outcomes, walkErr>>

\* ------------------------------------------------------------- environment
\* Another process deletes a file the run still refers to: during the walk
\* one that is listed, just before its Lstat (nothing looks at it between the
\* listing and the Lstat), after the walk one that has a key in fileMap.  The range over fileMap reads no file, so a deletion during it
\* is taken at its end, or at the start of the deletion loop when that
\* follows; after the walk only os.Remove looks at the tree, so a deletion
\* is taken only in a run that is to remove files.
ExternalDelete ==
    /\ pc \in {"walk", "range", "delete"}
    /\ pc = "range" => (rangeLeft = {} /\ ~EntersDelete)
    /\ pc # "walk" => Apply
    /\ Faults < MaxFaults
    /\ \E p \in Paths :
         /\ fs[p].kind = "file"
         /\ pc = "walk" => (todo # << >> /\ Head(todo) = p)
         /\ pc # "walk" => \E i \in 1..Len(walked) :
                              walked[i].path = p /\ Len(fileMap[walked[i].key]) > 1
         /\ fs' = [fs EXCEPT ![p] = NoEntry]
         /\ external' = Append(external,
                               [op |-> "delete", path |-> p, run |-> run,
                                pc |-> pc, at |-> di])
    /\ UNCHANGED <<fs0, flags, local, removeFails, run, history>>

\* the paths of toDelete the deletion loop has not come to yet
Pending == {toDelete[j] : j \in di..Len(toDelete)}

\* Another process overwrites a file after calculateFileHash has read it:
\* a file kept by a group or one the deletion loop has not come to yet.
\* Nothing reads a content after the walk, so a write during the walk or the
\* range is taken at the end of the range, or at the start of the deletion
\* loop when that follows.
ExternalWrite ==
    /\ pc \in {"range", "delete"}
    /\ pc = "range" => (rangeLeft = {} /\ ~EntersDelete)
    /\ Apply
    /\ UsesHash
    /\ Faults < MaxFaults
    /\ \E p \in Paths, c \in Contents :
         /\ fs[p].kind = "file"
         /\ c # fs[p].content
         /\ p \in Pending \cup {g.keep : g \in {duplicates[i] : i \in 1..Len(duplicates)}}
         /\ fs' = [fs EXCEPT ![p].content = c]
         /\ external' = Append(external,
                               [op |-> "write", path |-> p, run |-> run,
                                pc |-> pc, at |-> di])
    /\ UNCHANGED <<fs0, flags, local, removeFails, run, history>>

Summary ==
    [apply |-> Apply, err |-> err, groups |-> Len(duplicates),
     duplicates |-> duplicates, tree |-> fs0,
     planned |-> Len(toDelete), attempts |-> Cardinality(Attempts),
     failed |-> Cardinality(Failed), external |-> Len(external)]

\* The command is run again on the tree the last run left, with the same
\* search path and flags.
Rerun ==
    /\ pc = "done"
    /\ run < MaxRuns
    /\ run' = run + 1
    /\ history' = Append(history, Summary)
    /\ pc' = "walk"
    /\ todo' = <<searchPath>>
    /\ fs0' = fs
    /\ visits' = << >>
    /\ walked' = << >>
    /\ fileMap' = [k \in AllKeys |-> << >>]
    /\ rangeLeft' = {}
    /\ duplicates' = << >>
    /\ toDelete' = << >>
    /\ di' = 1
    /\ outcomes' = << >>
    /\ report' = NoReport
    /\ walkErr' = "nil"
    /\ err' = "pending"
    /\ UNCHANGED <<fs, flags, external, removeFails>>

Init ==
    /\ fs \in Trees
    /\ fs0 = fs
    /\ by \in ByValues
    \* only calculateFileHash opens a file
    /\ by # "hash" => \A p \in Paths : fs[p].kind \in NonDir => fs[p].readable
    /\ action \in ActionValues
    /\ dryRun \in BOOLEAN
    /\ recursive \in BOOLEAN
    /\ format \in {"plain", "json"}
    /\ pc = "walk"
    /\ todo = <<searchPath>>
    /\ visits = << >>
    /\ walked = << >>
    /\ fileMap = [k \in AllKeys |-> << >>]
    /\ rangeLeft = {}
    /\ duplicates = << >>
    /\ toDelete = << >>
    /\ di = 1
    /\ outcomes = << >>
    /\ report = NoReport
    /\ walkErr = "nil"
    /\ err = "pending"
    /\ external = << >>
    /\ removeFails = 0
    /\ run = 1
    /\ history = << >>

Next ==
    \/ WalkStep
    \/ WalkReturn
    \/ RangeStep
    \/ OutputStep
    \/ DeleteStep
    \/ DeleteReturn
    \/ ExternalDelete
    \/ ExternalWrite

\* one invocation
Spec == Init /\ [][Next]_vars

\* the steps of runDedupe itself
RunStep ==
    \/ WalkStep
    \/ WalkReturn
    \/ RangeStep
    \/ OutputStep
    \/ DeleteStep
    \/ DeleteReturn

\* one invocation that is not held up: runDedupe is sequential code with no
\* blocking call other than the system calls on the tree, so a step that
\* can be taken is taken; other processes may act or not, and nothing makes
\* one of them open a pipe the run waits on
SpecFair == Init /\ [][Next]_vars /\ WF_vars(RunStep)

NextRerun ==
    \/ Next
    \/ Rerun

\* up to MaxRuns invocations in sequence
SpecRerun == Init /\ [][NextRerun]_vars

\* ------------------------------------------------------------- properties
Elems(seq) == {seq[i] : i \in 1..Len(seq)}
Groups == Elems(duplicates)
Members(g) == <<g.keep>> \o g.duplicates
AttemptedPaths == {outcomes[i].path : i \in Attempts}
WalkedPaths == {walked[i].path : i \in 1..Len(walked)}

\* the key the file at p has in the tree as it is now
CurrentKey(p) ==
    IF by = "hash" THEN Sha256Hex(fs[p].content) ELSE NameKey(BaseName(p))

\* C1: a run that is not in apply mode (dry-run set, or action not delete)
\* changes neither the set of files nor any content, whatever the tree, the
\* strategy, the recursive setting and the output format: every step of such
\* a run that is not a step of another process leaves the tree as it was.
C1_PreviewNeverMutates ==
    [][(~Apply /\ external' = external) => fs' = fs]_vars

C1_Witness ==
    /\ pc = "done"
    /\ action = "delete"
    /\ dryRun
    /\ format = "plain"
    /\ Len(outcomes) = 3
    /\ external = << >>

\* C2: in apply mode, when the run returns, a deletion has been attempted on
\* every member other than the first of every group, in plain and json alike.
C2_ApplyAttemptsAll ==
    (pc = "done" /\ Apply) =>
        \A g \in Groups : Elems(g.duplicates) \subseteq AttemptedPaths

RootUnwalkable == fs[searchPath].kind = "none" \/ ~fs[searchPath].readable

\* C4: when the search path does not exist or cannot be read, runDedupe
\* returns an error.
C4_MissingRootFails ==
    (pc = "done" /\ RootUnwalkable) => err # "nil"

\* C5: when the deletion of a member of the deletion list fails, the failure
\* is printed for that member, and by the time the run returns a deletion
\* has been attempted on every later member of the list.
C5_FailureDoesNotAbort ==
    \A k \in Failed :
        /\ outcomes[k].line = "Failed to delete"
        /\ pc = "done" =>
             \A j \in 1..Len(toDelete) :
                 (\E i \in 1..(j - 1) : toDelete[i] = outcomes[k].path)
                     => toDelete[j] \in AttemptedPaths

C5_Witness ==
    /\ pc = "done"
    /\ Len(toDelete) = 3
    /\ 1 \in Failed
    /\ fs[toDelete[1]].kind = "file"
    /\ fs[toDelete[3]].kind = "none"

\* C6: the members of every group are in the order the walk produced them:
\* the retained member was visited before every other member, and each
\* member before the next.
C6_RetainFirstByWalkOrder ==
    \A g \in Groups :
        \A i, j \in 1..Len(Members(g)) :
            i < j =>
                \E a, b \in 1..Len(walked) :
                    /\ a < b
                    /\ walked[a].path = Members(g)[i]
                    /\ walked[b].path = Members(g)[j]

C6_Witness ==
    /\ pc = "done"
    /\ \E g \in Groups : Len(Members(g)) = 3
    /\ Len(duplicates) = 2

\* the walked files whose key no other walked file has
UniqueWalked ==
    {walked[i].path : i \in
        {i \in 1..Len(walked) :
            \A j \in 1..Len(walked) : walked[j].key = walked[i].key => j = i}}

\* C7: a walked file whose key is shared by no other walked file is in no
\* group, neither as the retained member nor as a removable one.
C7_UniqueKeyUngrouped ==
    \A p \in UniqueWalked : \A g \in Groups : p \notin Elems(Members(g))

C7_Witness ==
    /\ pc = "done"
    /\ UniqueWalked # {}
    /\ Len(duplicates) = 1
    /\ Len(walked) = 3

\* C8: every path os.Remove is called on is a member other than the first of
\* a reported group; it is a file the walk gave a key (no directory, no file
\* whose hashing failed), and that key is shared with another walked file.
C8_OnlyRemovablesDeleted ==
    \A p \in AttemptedPaths :
        /\ \E g \in Groups : p \in Elems(g.duplicates) /\ p # g.keep
        /\ p \in WalkedPaths \ UniqueWalked
        /\ \A i \in 1..Len(walked) :
               walked[i].path = p =>
                   \E j \in 1..(i - 1) : walked[j].key = walked[i].key

C8_Witness ==
    /\ pc = "done"
    /\ Apply
    /\ Cardinality(AttemptedPaths) = 1
    /\ UniqueWalked # {}
    /\ Unreadable(fs) # {}
    /\ by = "hash"

\* C9: after an apply run in which no removal failed, and with nobody else
\* touching the tree, the next run with the same search path and flags finds
\* no group and attempts no removal.
C9_SecondApplyEmpty ==
    (/\ run > 1
     /\ pc = "done"
     /\ history[run - 1].apply
     /\ history[run - 1].failed = 0
     /\ external = << >>)
        => duplicates = << >> /\ Attempts = {}

\* the member another process deleted after the walk and before its attempt
DeletedBeforeAttempt(p) ==
    /\ Len(external) = 1
    /\ external[1].op = "delete"
    /\ external[1].path = p
    /\ external[1].run = run
    /\ external[1].pc # "walk"
    /\ \E j \in 1..Len(toDelete) : toDelete[j] = p /\ external[1].at <= j

\* C10: in apply mode, when another process deletes one removable member
\* after the walk and before its attempt (and nothing else goes wrong), that
\* member's attempt is printed as failed, and every removable member of the
\* other groups is attempted and removed.
C10_ExternalDeletion ==
    \A p \in Paths :
        (pc = "done" /\ Apply /\ DeletedBeforeAttempt(p) /\ removeFails = 0) =>
            /\ \E k \in Failed :
                   outcomes[k].path = p /\ outcomes[k].line = "Failed to delete"
            /\ \A g \in Groups :
                   p \notin Elems(g.duplicates) =>
                       \A q \in Elems(g.duplicates) :
                           /\ fs[q].kind = "none"
                           /\ \E k \in Attempts \ Failed : outcomes[k].path = q

\* ------------------------------------------------- properties of the walk
\* the walk is over / the range over fileMap is over
WalkDone == pc # "walk"
RangeDone == pc \in {"delete", "done"} \/ (pc = "range" /\ rangeLeft = {})

\* two paths are members of one group
SameGroup(p, q) == \E g \in Groups : {p, q} \subseteq Elems(Members(g))

\* the paths the walk function was called with, and those it took as files
VisitedPaths == {visits[i].path : i \in 1..Len(visits)}
Candidates ==
    {visits[i].path : i \in
        {i \in 1..Len(visits) :
            ~visits[i].err /\ visits[i].info.kind \in NonDir}}

\* the paths another process deleted while the walk had them listed
DeletedInWalk ==
    {external[i].path : i \in
        {i \in 1..Len(external) :
            external[i].run = run /\ external[i].pc = "walk"}}

\* every directory above p could be listed when the run started
Listable(p) ==
    \A k \in 0..(Len(p) - 1) :
        fs0[SubSeq(p, 1, k)].kind = "dir" /\ fs0[SubSeq(p, 1, k)].readable

\* C11: under the hash strategy two files the walk gave a key are in the same
\* group exactly when their contents are equal, whatever their names; with
\* a.txt = X, b.txt = X and c.txt = Y in one directory the groups are exactly
\* one, with keep a.txt and duplicates [b.txt].
C11_HashGroupsByContent ==
    (by = "hash" /\ RangeDone) =>
        /\ \A i, j \in 1..Len(walked) :
               i # j => (SameGroup(walked[i].path, walked[j].path)
                            <=> walked[i].content = walked[j].content)
        /\ (/\ fs0[searchPath].readable
            /\ \A p \in TopPaths : fs0[p].kind = "file" /\ fs0[p].readable
            /\ fs0[<<1>>].content = fs0[<<2>>].content
            /\ fs0[<<3>>].content # fs0[<<1>>].content
            /\ DeletedInWalk = {})
               => duplicates =
                      << [key |-> Sha256Hex(fs0[<<1>>].content), keep |-> <<1>>,
                          duplicates |-> << <<2>> >>, count |-> 1] >>

C11_Witness ==
    /\ by = "hash"
    /\ pc = "done"
    /\ fs0[searchPath].readable
    /\ \A p \in TopPaths : fs0[p].kind = "file" /\ fs0[p].readable
    /\ fs0[<<1>>].content = fs0[<<2>>].content
    /\ fs0[<<3>>].content # fs0[<<1>>].content
    /\ Len(duplicates) = 1
    /\ fs[<<2>>].kind = "none"
    /\ fs[<<3>>].kind = "file"

\* C12: under the name strategy two files the walk gave a key are in the same
\* group exactly when their base names are equal, whatever their contents
\* and directories.
C12_NameGroupsByBaseName ==
    (by = "name" /\ RangeDone) =>
        \A i, j \in 1..Len(walked) :
            i # j => (SameGroup(walked[i].path, walked[j].path)
                         <=> walked[i].path[Len(walked[i].path)]
                                = walked[j].path[Len(walked[j].path)])

C12_Witness ==
    /\ by = "name"
    /\ pc = "done"
    /\ \E i, j \in 1..Len(walked) :
         /\ i # j
         /\ SameGroup(walked[i].path, walked[j].path)
         /\ walked[i].content # walked[j].content
         /\ Parent(walked[i].path) # Parent(walked[j].path)
    /\ \E i, j \in 1..Len(walked) :
         /\ walked[i].content = walked[j].content
         /\ ~SameGroup(walked[i].path, walked[j].path)

\* C13: when recursive is false the candidates are exactly the entries of the
\* search path's own listing that are no directories, and no path below a
\* subdirectory is given a key, grouped or deleted.
C13_NonRecursiveWalk ==
    ~recursive =>
        /\ \A p \in Candidates \cup WalkedPaths \cup AttemptedPaths
                      \cup Elems(toDelete)
                      \cup UNION {Elems(Members(g)) : g \in Groups} :
               Len(p) = 1
        /\ WalkDone =>
               Candidates =
                   {p \in TopPaths : fs0[p].kind \in NonDir /\ Listable(p)}
                       \ DeletedInWalk

C13_Witness ==
    /\ ~recursive
    /\ pc = "done"
    /\ by = "hash"
    /\ \E p \in SubPaths :
         fs0[p].kind = "file" /\ fs0[p].readable /\ fs0[Parent(p)].readable
            /\ fs0[p].content = fs0[<<1>>].content
    /\ Len(duplicates) = 1
    /\ Cardinality(AttemptedPaths) = 1

\* C14: when recursive is true every entry that is no directory, in every
\* directory that can be listed, is a candidate, and two of them that got
\* the same key are in one group, also when they are in different
\* directories.
C14_RecursiveWalk ==
    recursive =>
        /\ WalkDone =>
               Candidates =
                   {p \in Paths : fs0[p].kind \in NonDir /\ Listable(p)}
                       \ DeletedInWalk
        /\ RangeDone =>
               \A i, j \in 1..Len(walked) :
                   (i # j /\ walked[i].key = walked[j].key)
                       => SameGroup(walked[i].path, walked[j].path)

C14_Witness ==
    /\ recursive
    /\ pc = "done"
    /\ \E g \in Groups : Len(g.keep) = 1 /\ Len(g.duplicates[1]) = 2
    /\ Cardinality(Candidates) = 5

\* C15: only regular files are given a key, grouped or deleted: never a
\* directory, never a symbolic link or another non-regular entry.
C15_OnlyRegularFiles ==
    /\ \A i \in 1..Len(walked) : walked[i].kind = "file"
    /\ \A g \in Groups : \A p \in Elems(Members(g)) : fs0[p].kind = "file"
    /\ \A p \in AttemptedPaths : fs0[p].kind = "file"

\* the calls of the walk function with an error, for an entry below the
\* search path
EntryErrors ==
    {i \in 1..Len(visits) : visits[i].err /\ visits[i].path # searchPath}

\* what the walk has to visit: the entries of the directories that can be
\* listed, of the search path only when recursive is false
ToVisit ==
    {p \in Paths \ {searchPath} :
        fs0[p].kind # "none" /\ Listable(p) /\ (recursive \/ Len(p) = 1)}

\* C16: an Lstat or listing error of an entry below the search path does not
\* end the walk and is not returned: the entry gets no key, every other entry
\* is still visited and every other file still gets its key.
C16_EntryErrorsSkipped ==
    EntryErrors # {} =>
        /\ walkErr = "nil"
        /\ pc = "done" => err = "nil"
        /\ \A i \in EntryErrors : visits[i].path \notin WalkedPaths
        /\ WalkDone =>
              /\ ToVisit \subseteq VisitedPaths
              /\ \A p \in ToVisit \ DeletedInWalk :
                     (fs0[p].kind \in NonDir /\ (UsesHash => fs0[p].readable))
                         => p \in WalkedPaths

C16_Witness ==
    /\ pc = "done"
    /\ \E i \in EntryErrors :
         /\ visits[i].info.kind = "none"
         /\ \E j \in 1..Len(walked) :
              \E k \in (i + 1)..Len(visits) :
                  visits[k].path = walked[j].path
    /\ Len(duplicates) = 1

\* the files calculateFileHash failed on
Unhashable ==
    {visits[i].path : i \in
        {i \in 1..Len(visits) :
            /\ ~visits[i].err
            /\ visits[i].info.kind \in NonDir
            /\ ~visits[i].info.readable}}

\* the paths the walk function took as files and could read, with content c
ReadWith(c) ==
    LET Test(v) == /\ ~v.err
                   /\ v.info.kind \in NonDir
                   /\ v.info.readable
                   /\ v.info.content = c
        sel == SelectSeq(visits, Test)
    IN  [i \in 1..Len(sel) |-> sel[i].path]

\* C17: under the hash strategy a file that cannot be opened or read is in no
\* group, is never deleted and has no key, and the other files are grouped
\* as if it were not there.
C17_UnhashableDropped ==
    by = "hash" =>
        /\ \A p \in Unhashable :
              /\ \A k \in AllKeys : p \notin Elems(fileMap[k])
              /\ \A g \in Groups : p \notin Elems(Members(g))
              /\ p \notin AttemptedPaths \cup Elems(toDelete)
        /\ \A c \in Contents : fileMap[Sha256Hex(c)] = ReadWith(c)

C17_Witness ==
    /\ by = "hash"
    /\ pc = "done"
    /\ Apply
    /\ Cardinality(AttemptedPaths) = 2
    /\ \E p \in Unhashable : fs0[p].kind = "file" /\ Before(p, toDelete[1])

\* C18: every group has at least two members and no two groups have the
\* same key.
C18_WellFormedGroups ==
    /\ \A g \in Groups : Len(Members(g)) >= 2
    /\ \A i, j \in 1..Len(duplicates) :
           i # j => duplicates[i].key # duplicates[j].key

C18_Witness ==
    /\ pc = "done"
    /\ Len(duplicates) = 2

\* C19: when the search path can be walked, runDedupe returns nil, also when
\* removals failed.
C19_RemovalFailuresExitZero ==
    (pc = "done" /\ ~RootUnwalkable) => err = "nil"

C19_Witness ==
    /\ pc = "done"
    /\ ~RootUnwalkable
    /\ Failed # {}
    /\ Failed = Attempts

\* the number of groups the report gives
ReportedCount == IF format = "json" THEN report.count ELSE report.found

EmptyRoot ==
    /\ fs0[searchPath].kind = "dir"
    /\ \A p \in Paths \ {searchPath} : fs0[p].kind = "none"

\* C20: the count of the report is the number of groups found, that is of
\* keys with two paths or more; for an empty directory there is no group and
\* the count is 0.
C20_ReportCount ==
    pc = "done" =>
        /\ ReportedCount = Cardinality({k \in AllKeys : Len(fileMap[k]) > 1})
        /\ ReportedCount = Len(duplicates)
        /\ EmptyRoot => duplicates = << >> /\ ReportedCount = 0

C20_Witness ==
    /\ pc = "done"
    /\ EmptyRoot
    /\ fs0[searchPath].readable
    /\ ReportedCount = 0

\* ----------------------------------------------- properties of the report
\* the keys of the map handed to output.PrintSuccess
Fields(r) == DOMAIN r \ {"format"}

GroupFields == {"key", "keep", "duplicates", "count"}

\* C21 as stated: the json report has exactly the fields root_path, method,
\* duplicates, count, to_delete and dry_run, and every element of duplicates
\* exactly the fields key, keep, duplicates and count.
C21_ReportFieldsRootPath ==
    report.format = "json" =>
        /\ Fields(report) = {"root_path", "method", "duplicates", "count",
                             "to_delete", "dry_run"}
        /\ \A g \in Elems(report.duplicates) : DOMAIN g = GroupFields

\* C21 amended: the json report has exactly the fields path, method,
\* duplicates, count, to_delete and dry_run, and every element of duplicates
\* exactly the fields key, keep, duplicates and count.
C21_ReportFields ==
    report.format = "json" =>
        /\ Fields(report) = {"path", "method", "duplicates", "count",
                             "to_delete", "dry_run"}
        /\ \A g \in Elems(report.duplicates) : DOMAIN g = GroupFields

C21_Witness ==
    /\ pc = "done"
    /\ report.format = "json"
    /\ report.path = searchPath
    /\ Len(report.duplicates) = 2

\* ------------------------------------------- properties of the sequencing
\* the keys of fileMap with two paths or more
GroupKeys == {k \in AllKeys : Len(fileMap[k]) > 1}

\* C22: no deletion is attempted before the walk has visited every entry it
\* has to visit and every group is formed, and a step that attempts a
\* deletion changes neither fileMap nor the groups nor the deletion list.
C22_PhasesSequential ==
    [][outcomes' # outcomes =>
          /\ todo = << >>
          /\ ToVisit \subseteq VisitedPaths
          /\ rangeLeft = {}
          /\ {g.key : g \in Groups} = GroupKeys
          /\ <<visits', walked', fileMap', duplicates', toDelete'>>
                = <<visits, walked, fileMap, duplicates, toDelete>>]_vars

C22_Witness ==
    /\ pc = "done"
    /\ Len(duplicates) = 2
    /\ Cardinality(Attempts) = 2
    /\ Failed = {}

\* the duplicates of the groups, in the order of the report
RECURSIVE Flatten(_)
Flatten(groups) ==
    IF groups = << >> THEN << >>
    ELSE Head(groups).duplicates \o Flatten(Tail(groups))

\* the paths of the deletion loop's iterations so far, in order
OutcomePaths == [i \in 1..Len(outcomes) |-> outcomes[i].path]

\* C23: the deletion attempts are made group by group in the order of the
\* groups in the report, within a group in the order of its duplicates; the
\* attempts of two groups are not interleaved.
C23_DeletionOrder ==
    /\ Len(outcomes) <= Len(Flatten(duplicates))
    /\ OutcomePaths = SubSeq(Flatten(duplicates), 1, Len(outcomes))

C23_Witness ==
    /\ pc = "done"
    /\ Apply
    /\ Len(duplicates) = 2
    /\ Cardinality(Attempts) = 3

NoRepeat(seq) == \A i, j \in 1..Len(seq) : i # j => seq[i] # seq[j]

\* C24: no path is twice in a group, no path is in two groups, no path is
\* twice in the deletion list and no file is the target of two attempts.
C24_DisjointMembers ==
    /\ \A g \in Groups : NoRepeat(Members(g))
    /\ \A i, j \in 1..Len(duplicates) :
           i # j => Elems(Members(duplicates[i]))
                        \cap Elems(Members(duplicates[j])) = {}
    /\ NoRepeat(toDelete)
    /\ NoRepeat(OutcomePaths)

C24_Witness ==
    /\ pc = "done"
    /\ Apply
    /\ Len(duplicates) = 1
    /\ Len(toDelete) = 3
    /\ Cardinality(AttemptedPaths) = 3

\* ------------------------------------------- properties of repeated runs
\* this run and the one before it are previews of the same tree
SameTreeAgain ==
    /\ run > 1
    /\ pc = "done"
    /\ ~Apply
    /\ fs0 = history[run - 1].tree
    /\ fs = fs0

\* C25: two preview runs with the same search path, strategy and recursive
\* setting over an unchanged tree report the same groups in the same order.
C25_SameOrderAgain ==
    SameTreeAgain => duplicates = history[run - 1].duplicates

\* -------------------------------------------- properties of the flags
\* C26: the key is the digest only when --by is exactly "hash"; with every
\* other value, documented or not, the key is the base name and the run
\* goes on without an error, in apply mode as well.
C26_ExactMatchOnHash ==
    /\ \A i \in 1..Len(walked) :
          walked[i].key = IF by = "hash"
                          THEN Sha256Hex(walked[i].content)
                          ELSE NameKey(walked[i].path[Len(walked[i].path)])
    /\ (by # "hash" /\ pc = "done") => err = "nil"

C26_Witness ==
    /\ by \notin {"hash", "name"}
    /\ pc = "done"
    /\ err = "nil"
    /\ Apply
    /\ \E i \in 1..Len(outcomes) :
         /\ ~outcomes[i].removeErr
         /\ fs[outcomes[i].path].kind = "none"
         /\ \E g \in Groups :
              /\ outcomes[i].path \in Elems(g.duplicates)
              /\ g.key = NameKey(outcomes[i].path[Len(outcomes[i].path)])
              /\ fs0[g.keep].content # fs0[outcomes[i].path].content

\* the paths another process deleted during this run
DeletedOutside ==
    {external[i].path : i \in {i \in 1..Len(external) : external[i].run = run}}

\* the run has deleted nothing
NothingDeleted ==
    /\ Attempts = {}
    /\ \A p \in Paths \ DeletedOutside : fs[p] = fs0[p]

\* C27: with an action other than "delete" the deletion list is empty,
\* to_delete is 0 and nothing is deleted, whatever --dry-run is; with action
\* "delete" and --dry-run, to_delete is the number of duplicates of all
\* groups and nothing is deleted.
C27_DeleteNeedsActionAndNoDryRun ==
    /\ action # "delete" =>
          /\ toDelete = << >>
          /\ outcomes = << >>
          /\ report.format = "json" => report.to_delete = 0
          /\ NothingDeleted
    /\ (action = "delete" /\ dryRun) =>
          /\ toDelete = Flatten(duplicates)
          /\ report.format = "json" =>
                report.to_delete = Len(Flatten(report.duplicates))
          /\ NothingDeleted

C27_Witness ==
    /\ pc = "done"
    /\ action \notin {"list", "delete"}
    /\ ~dryRun
    /\ report.format = "json"
    /\ Len(report.duplicates) = 2
    /\ report.to_delete = 0

\* -------------------------------------- properties under outside writes
\* the one thing that went wrong: another process has overwritten, after
\* the walk of this run, a file the run kept or had still to remove
OneWrite ==
    /\ Len(external) = 1
    /\ external[1].op = "write"
    /\ external[1].run = run
    /\ removeFails = 0

\* C28: the deletions follow the keys computed during the walk: when another
\* process overwrites a removable member, or the file kept, after it was
\* hashed and before the attempt, every removable member is still deleted.
C28_StaleKeysStillDelete ==
    (pc = "done" /\ Apply /\ OneWrite) =>
        /\ toDelete = Flatten(duplicates)
        /\ \A g \in Groups : \A q \in Elems(Members(g)) :
               \E i \in 1..Len(walked) :
                   walked[i].path = q /\ walked[i].key = g.key
        /\ \A q \in Elems(toDelete) :
               /\ fs[q].kind = "none"
               /\ \E k \in Attempts \ Failed : outcomes[k].path = q

\* ------------------------------------------------- properties of the counts
RECURSIVE SumCounts(_)
SumCounts(groups) ==
    IF groups = << >> THEN 0
    ELSE Head(groups).count + SumCounts(Tail(groups))

\* C29: the count of a group is the length of its duplicates, one less than
\* the number of its members; to_delete is the sum of the counts of the
\* groups when the action is "delete" and 0 otherwise.
C29_CountsConsistent ==
    /\ \A g \in Groups :
          /\ g.count = Len(g.duplicates)
          /\ g.count = Len(Members(g)) - 1
    /\ report.format = "json" =>
          /\ \A g \in Elems(report.duplicates) :
                g.count = Len(g.duplicates) /\ g.count = Len(Members(g)) - 1
          /\ report.to_delete = IF action = "delete"
                                THEN SumCounts(report.duplicates) ELSE 0

C29_Witness ==
    /\ pc = "done"
    /\ report.format = "json"
    /\ action = "delete"
    /\ Len(report.duplicates) = 2
    /\ report.to_delete = 3
    /\ \E g \in Elems(report.duplicates) : g.count = 2

\* ------------------------------------------------------------ termination
VisitPaths == [i \in 1..Len(visits) |-> visits[i].path]

\* C30: the run comes to its end on every tree, symbolic links to
\* directories included: no path is visited twice (a link is not followed),
\* the deletion loop makes at most one iteration per path of toDelete, and
\* runDedupe returns.
C30_Terminates ==
    /\ [](NoRepeat(VisitPaths) /\ Len(outcomes) <= Len(toDelete))
    /\ <>(pc = "done")

====
